---- MODULE Spec2Model ----
(***************************************************************************)
(* Key Resolution Cache (JWKSetCache) of anvilresearch/jwt.                *)
(*                                                                         *)
(* The cache object holds jwkSets (locator -> key set), recent (the LRU    *)
(* list, most recently used first), store (optional persistent store) and  *)
(* max.  Every promise callback of a lookup is one action; the I/O of the  *)
(* collaborators (store.get, store.put, JWKSet.importKeys) is in flight    *)
(* between the action that issues it and the action that receives its      *)
(* reply.                                                                  *)
(*                                                                         *)
(* JOSE Signature (JOSESignature).  sig is the signature object a caller   *)
(* constructs and then holds: the argument of the constructor, the own     *)
(* properties of the instance, and the protected header object that the    *)
(* argument and the instance share.  job is the sign or verify call in     *)
(* flight.                                                                 *)
(*                                                                         *)
(* Token model (JWT / JWD).  tok is a token on its way through encode,     *)
(* decode and verify.                                                      *)
(***************************************************************************)
EXTENDS Integers, Sequences, FiniteSets, TLC

\* ---------------------------------------------------------------- bounds
NumJku == 2

\* ---------------------------------------------------------------- values
Locators == 1..NumJku

\* The value of a parameter that the caller did not pass (JS undefined),
\* used as a locator by cacheJwks when it is called with one argument.
UNDEF == 0

\* The values of options.max that are configured: the smallest capacity, and
\* the capacity of 2 that the eviction test of cacheJwks sets.
Capacities == {1, 2}

Slots == {1, 2}

Kids == {"k1", "k2"}

\* Key sets the network or the store can serve.  "A" is the set before a
\* key rotation, "B" the set after it: k1 lost its verify operation and k2
\* was added.
SetIds == {"A", "B"}

Keys(id) ==
  IF id = "A"
    THEN << [kid |-> "k1", key_ops |-> {"verify"}] >>
    ELSE << [kid |-> "k1", key_ops |-> {"sign"}],
            [kid |-> "k2", key_ops |-> {"verify"}] >>

NoKey == [kid |-> "none", key_ops |-> {}]

\* Falsy values of a jwks parameter.
Falsy == {"null", "undefined"}

Ops == {"getJwks", "getJwk", "cacheJwks"}

VARIABLES jwkSets, recent, store, max, calls, sig, job, tok

vars == <<jwkSets, recent, store, max, calls, sig, job, tok>>

\* ---------------------------------------------------------------- helpers
Elems(s) == {s[i] : i \in 1..Len(s)}

IndexOf(s, x) == CHOOSE i \in 1..Len(s) : s[i] = x /\ \A j \in 1..(i - 1) : s[j] # x

Count(s, x) == Cardinality({i \in 1..Len(s) : s[i] = x})

Without(f, k) == [x \in (DOMAIN f) \ {k} |-> f[x]]

\* jwks.find({ kid, key_ops: { $in: ['verify'] } }): the first match.
Find(id, kid) ==
  LET ks == Keys(id)
      hits == {i \in 1..Len(ks) : ks[i].kid = kid /\ "verify" \in ks[i].key_ops}
  IN IF hits = {} THEN NoKey
     ELSE ks[CHOOSE i \in hits : \A j \in hits : i <= j]

\* cache[jku] || null
CacheLookup(sets, jku) == IF jku \in DOMAIN sets THEN sets[jku] ELSE "null"

\* if (jwks || !store) pass through
StorePassAlwaysAsk(jwks, st) == ~st.configured

StorePass(jwks, st) == jwks \notin Falsy \/ ~st.configured

\* if (jwks) pass through
NetworkPass(jwks) == jwks \notin Falsy

\* The locator getJwks hands to cacheJwks: this.cacheJwks(jwks), no jku.
GetJwksCacheArg(jku) == UNDEF

\* recent.splice(recent.indexOf(jku)): no delete count, so through the end.
Splice(rec, jku) ==
  IF jku \in Elems(rec) THEN SubSeq(rec, 1, IndexOf(rec, jku) - 1) ELSE rec

\* recent.unshift(jku)
UnshiftBack(rec, jku) == Append(rec, jku)

Unshift(rec, jku) == <<jku>> \o rec

\* while (recent.length > max) { let jku = recent.pop(); delete jwkSets[jku] }
RECURSIVE EvictHead(_, _, _)
EvictHead(rec, sets, mx) ==
  IF Len(rec) > mx
    THEN EvictHead(Tail(rec), Without(sets, Head(rec)), mx)
    ELSE [recent |-> rec, jwkSets |-> sets]

RECURSIVE Evict(_, _, _)
Evict(rec, sets, mx) ==
  IF Len(rec) > mx
    THEN Evict(SubSeq(rec, 1, Len(rec) - 1), Without(sets, rec[Len(rec)]), mx)
    ELSE [recent |-> rec, jwkSets |-> sets]

\* if (!jwks) of cacheJwks: there is no key set to cache.
NoJwksOnlyNull(jwks) == jwks = "null"

NoJwks(jwks) == jwks \in Falsy

\* The body of cacheJwks after the falsy check.
CacheJwksResult(rec, sets, mx, jwks, jku) ==
  Evict(Unshift(Splice(rec, jku), jku), (jku :> jwks) @@ sets, mx)

\* ---------------------------------------------------------------- JOSESignature
\* Property names: the four the constructor reads, one it does not know
\* ("foo"), and one that no constructor argument carries ("x").
SigProps == {"protectedHeader", "unprotectedHeader", "signature", "cache", "foo", "x"}

\* JS truthiness of the values used here.
Truthy(v) == v \notin {"undefined", "null", ""}

\* Header parameters of a protected header object.
Algs == {"undefined", "none", "RS256"}

NoHeader == [alg |-> "undefined", kid |-> "undefined", jku |-> "undefined"]

NoProps == [p \in SigProps |-> "undefined"]

\* An object: its own properties, the enumerable ones, their values.
NoObject == [own |-> {}, enum |-> {}, val |-> NoProps, frozen |-> FALSE]

\* What a caller gives for a property: nothing ("absent") or one of these
\* values ("obj" is an object).
Given(p) ==
  CASE p = "protectedHeader" -> {"absent", "null", "obj"}
    [] p = "unprotectedHeader" -> {"absent", "undefined", "null", "obj"}
    [] p = "signature" -> {"absent", "", "fake"}
    [] p = "cache" -> {"absent", "cacheRef"}
    [] p = "foo" -> {"absent", "bar"}
    [] OTHER -> {"absent"}

\* An object literal with the given properties.
Literal(g) ==
  [NoObject EXCEPT !.own = {p \in SigProps : g[p] # "absent"},
                   !.enum = {p \in SigProps : g[p] # "absent"},
                   !.val = [p \in SigProps |->
                              IF g[p] = "absent" THEN "undefined" ELSE g[p]]]

\* The arguments of the constructor.
DataArgs ==
  { Literal([protectedHeader |-> ph, unprotectedHeader |-> uh, signature |-> sg,
             cache |-> ca, foo |-> fo, x |-> "absent"]) :
      ph \in Given("protectedHeader"), uh \in Given("unprotectedHeader"),
      sg \in Given("signature"), ca \in Given("cache"), fo \in Given("foo") }

\* let { protectedHeader, unprotectedHeader, signature, cache } = data
Get(obj, p) == IF p \in obj.own THEN obj.val[p] ELSE "undefined"

\* Object.assign(this, data)
Assign(data) == [NoObject EXCEPT !.own = data.enum, !.enum = data.enum,
                                 !.val = [p \in SigProps |->
                                            IF p \in data.enum THEN data.val[p]
                                            ELSE "undefined"]]

\* if (!protectedHeader) throw
HeaderCheckTypeError(data) ==
  IF ~Truthy(Get(data, "protectedHeader")) THEN "TypeError" ELSE "none"

HeaderCheck(data) ==
  IF ~Truthy(Get(data, "protectedHeader"))
    THEN "JOSESignature must define protected header"
    ELSE "none"

\* if (!signature && alg !== 'none') throw
SignatureCheckOff(data, alg) == "none"

SignatureCheck(data, alg) ==
  IF ~Truthy(Get(data, "signature")) /\ alg # "none"
    THEN "JOSESignature must define signature"
    ELSE "none"

\* if (signature && alg === 'none') throw
UnsecuredCheckOff(data, alg) == "none"

UnsecuredCheck(data, alg) ==
  IF Truthy(Get(data, "signature")) /\ alg = "none"
    THEN "Unsecured JWS must not include signature"
    ELSE "none"

\* if (!cache && alg !== 'none') throw
CacheCheckOff(data, alg) == "none"

CacheCheck(data, alg) ==
  IF ~Truthy(Get(data, "cache")) /\ alg # "none"
    THEN "JOSESignature requires cache"
    ELSE "none"

\* The checks of the constructor in their order: the message of the first
\* that throws, or "none".
ConstructorError(data, alg) ==
  IF HeaderCheck(data) # "none" THEN HeaderCheck(data)
  ELSE IF SignatureCheck(data, alg) # "none" THEN SignatureCheck(data, alg)
  ELSE IF UnsecuredCheck(data, alg) # "none" THEN UnsecuredCheck(data, alg)
  ELSE CacheCheck(data, alg)

\* if (this.hasOwnProperty('unprotectedHeader') &&
\*     this['unprotectedHeader'] === undefined) delete this['unprotectedHeader']
KeepUndefinedHeader(obj) == obj

DropUndefinedHeader(obj) ==
  IF "unprotectedHeader" \in obj.own /\ obj.val["unprotectedHeader"] = "undefined"
    THEN [obj EXCEPT !.own = @ \ {"unprotectedHeader"},
                     !.enum = @ \ {"unprotectedHeader"}]
    ELSE obj

\* delete this.cache; Object.defineProperty(this, 'cache', { value: cache,
\* enumerable: false, configurable: false })
DefineCacheEnumerable(obj, cache) ==
  [obj EXCEPT !.own = @ \cup {"cache"}, !.enum = @ \cup {"cache"},
              !.val["cache"] = cache]

DefineCache(obj, cache) ==
  [obj EXCEPT !.own = @ \cup {"cache"}, !.enum = @ \ {"cache"},
              !.val["cache"] = cache]

\* Object.freeze(this)
Freeze(obj) == [obj EXCEPT !.frozen = TRUE]

\* The instance a constructor call that does not throw leaves.
Constructed(data) ==
  Freeze(DefineCache(DropUndefinedHeader(Assign(data)), Get(data, "cache")))

\* JSON.stringify(instance): the enumerable own properties with a value.
Serialized(obj) == {p \in obj.enum : obj.val[p] # "undefined"}

\* What the signature bytes of an instance sign: the key pair, the signing
\* input and the payload of the jwk.sign call that made them (none for bytes
\* that no key made).
Unsigned == [pair |-> "none", input |-> << >>, payload |-> "undefined"]

\* No constructor call yet.
NoSig ==
  [state |-> "none", err |-> "none", data |-> NoObject, inst |-> NoObject,
   header |-> NoHeader, touched |-> FALSE, opErr |-> "none",
   signed |-> Unsigned]

\* ---------------------------------------------------------------- sign and verify
\* Key pairs: the private JWK of a pair signs, its public JWK verifies.
Pairs == {"K1", "K2"}

KeyKid(k) == IF k = "K1" THEN "k1" ELSE "k2"

\* Payloads (claims objects).
Payloads == {"p1", "p2"}

Claims(p) == IF p = "p1" THEN <<"iss", "a">> ELSE <<"iss", "b">>

\* JSON.stringify of a header: its defined parameters in their order.
JsonHeader(h) ==
  (IF h.alg # "undefined" THEN <<"alg", h.alg>> ELSE << >>)
    \o (IF h.kid # "undefined" THEN <<"kid", h.kid>> ELSE << >>)
    \o (IF h.jku # "undefined" THEN <<"jku", h.jku>> ELSE << >>)

\* JSON.stringify of a payload.
JsonPayload(p) == <<"{">> \o Claims(p) \o <<"}">>

\* base64url(text)
Base64url(text) == <<"b64(">> \o text \o <<")">>

\* sign: b64p, b64h, input = `${b64h}.${b64p}`
SignInput(h, p) == Base64url(JsonHeader(h)) \o <<".">> \o Base64url(JsonPayload(p))

\* verify: b64h, b64p, signingInput = `${b64h}.${b64p}`
VerifyInputPayloadFirst(h, p) ==
  Base64url(JsonPayload(p)) \o <<".">> \o Base64url(JsonHeader(h))

VerifyInput(h, p) == Base64url(JsonHeader(h)) \o <<".">> \o Base64url(JsonPayload(p))

\* What the verify of the public JWK of a pair resolves for an input and the
\* signature bytes.
KeyVerify(pair, input, signed) == signed.pair = pair /\ signed.input = input

\* The key hints of verify: none, a JWK instance, or raw key material.
NoHint == [kind |-> "none", pair |-> "none"]

Hints == {NoHint} \cup [kind : {"jwk", "raw"}, pair : Pairs]

\* No sign or verify call in flight.
NoJob ==
  [kind |-> "none", pc |-> "idle", payload |-> "undefined", cache |-> "undefined",
   jwk |-> "undefined", uh |-> "undefined", hint |-> NoHint, header |-> NoHeader,
   key |-> "none", input |-> << >>, log |-> << >>, status |-> "pending",
   value |-> "undefined", err |-> "none"]

\* The precondition checks of sign, in their order.
SignChecksKeyFirst(payload, cache, jwk) ==
  IF ~Truthy(jwk) THEN "JOSE Signature requires JWK"
  ELSE IF ~Truthy(payload) THEN "Missing payload for JOSE Signature"
  ELSE IF ~Truthy(cache) THEN "Missing JWKSetCache for JOSE Signature"
  ELSE "none"

SignChecks(payload, cache, jwk) ==
  IF ~Truthy(payload) THEN "Missing payload for JOSE Signature"
  ELSE IF ~Truthy(cache) THEN "Missing JWKSetCache for JOSE Signature"
  ELSE IF ~Truthy(jwk) THEN "JOSE Signature requires JWK"
  ELSE "none"

\* if (!alg)
MissingAlgNever(h) == FALSE

MissingAlg(h) == ~Truthy(h.alg)

\* if (alg === 'none')
UnsecuredNever(h) == FALSE

Unsecured(h) == h.alg = "none"

\* The body of verify(payload, keyHint) for the call j0, on the protected
\* header h as it is when the body runs (the call keeps the header it read).
VerifyBodyCacheFirst(j0, h, hint) ==
  LET j == [j0 EXCEPT !.header = h]
  IN
  IF MissingAlg(h)
    THEN [j EXCEPT !.pc = "done", !.status = "rejected",
                   !.err = "Missing \"alg\" in protected header"]
  ELSE IF Unsecured(h)
    THEN [j EXCEPT !.pc = "done", !.status = "resolved", !.value = "true"]
  ELSE IF Truthy(h.kid) /\ Truthy(h.jku)
    THEN [j EXCEPT !.pc = "resolving",
                   !.log = Append(j.log, "getJwk")]
  ELSE IF hint.kind = "jwk"
    THEN [j EXCEPT !.pc = "verifying", !.key = hint.pair,
                   !.input = VerifyInput(h, j.payload),
                   !.log = Append(j.log, "keyVerify")]
  ELSE IF hint.kind = "raw"
    THEN [j EXCEPT !.pc = "importing", !.key = hint.pair,
                   !.log = Append(j.log, "import")]
  ELSE [j EXCEPT !.pc = "done", !.status = "returned", !.value = "undefined"]

VerifyBody(j0, h, hint) ==
  LET j == [j0 EXCEPT !.header = h]
  IN
  IF MissingAlg(h)
    THEN [j EXCEPT !.pc = "done", !.status = "rejected",
                   !.err = "Missing \"alg\" in protected header"]
  ELSE IF Unsecured(h)
    THEN [j EXCEPT !.pc = "done", !.status = "resolved", !.value = "true"]
  ELSE IF hint.kind = "jwk"
    THEN [j EXCEPT !.pc = "verifying", !.key = hint.pair,
                   !.input = VerifyInput(h, j.payload),
                   !.log = Append(j.log, "keyVerify")]
  ELSE IF hint.kind = "raw"
    THEN [j EXCEPT !.pc = "importing", !.key = hint.pair,
                   !.log = Append(j.log, "import")]
  ELSE IF Truthy(h.kid) /\ Truthy(h.jku)
    THEN [j EXCEPT !.pc = "resolving",
                   !.log = Append(j.log, "getJwk")]
  ELSE [j EXCEPT !.pc = "done", !.status = "returned", !.value = "undefined"]

\* ---------------------------------------------------------------- tokens
\* The most signatures of a token.
MaxSigs == 2

Forms == {"compact", "flattened", "general"}

\* Protected headers of signature descriptors.
TokenHeaders ==
  { [alg |-> "RS256", kid |-> "k1", jku |-> "j1"],
    [alg |-> "RS256", kid |-> "k2", jku |-> "undefined"],
    [alg |-> "none", kid |-> "undefined", jku |-> "undefined"] }

\* Signature descriptors of the canonical token: protected header, optional
\* unprotected header ("undefined" when absent), signature ("" for alg none).
Descriptors ==
  { d \in [protected : TokenHeaders, header : {"undefined", "uh"},
           signature : {"", "s1", "s2"}] :
      (d.signature = "") <=> (d.protected.alg = "none") }

SigSeqs(n) == UNION { [1..k -> Descriptors] : k \in 1..n }

\* Canonical tokens: a payload and an ordered sequence of signatures.
Tokens == [payload : Payloads, signatures : SigSeqs(MaxSigs)]

\* The value of parameter name in the JSON text of a header.
Param(json, name) ==
  IF \E i \in 1..Len(json) : i % 2 = 1 /\ json[i] = name
    THEN json[(CHOOSE i \in 1..Len(json) : i % 2 = 1 /\ json[i] = name) + 1]
    ELSE "undefined"

\* JSON.parse of a header.
ParseHeader(json) ==
  [alg |-> Param(json, "alg"), kid |-> Param(json, "kid"),
   jku |-> Param(json, "jku")]

\* JSON.parse of a payload.
ParsePayload(json) ==
  IF \E p \in Payloads : JsonPayload(p) = json
    THEN CHOOSE p \in Payloads : JsonPayload(p) = json
    ELSE "undefined"

\* base64url decoding
UnBase64url(seg) == SubSeq(seg, 2, Len(seg) - 1)

\* base64url of a signature: an empty segment for no signature.
SigSegment(sg) == IF sg = "" THEN << >> ELSE Base64url(<<sg>>)

UnSigSegment(seg) == IF seg = << >> THEN "" ELSE UnBase64url(seg)[1]

\* A serialized token: the dot-separated segments of a compact string, or
\* the keys and members of a JSON object.
NoWire ==
  [segments |-> << >>, keys |-> {}, payload |-> << >>, protected |-> << >>,
   header |-> "undefined", signature |-> << >>, signatures |-> << >>]

\* A signature descriptor of the General form: { protected, header?,
\* signature }.
WireDescriptor(d) ==
  [keys |-> {"protected", "signature"}
              \cup (IF d.header # "undefined" THEN {"header"} ELSE {}),
   protected |-> JsonHeader(d.protected), header |-> d.header,
   signature |-> d.signature]

UnWireDescriptor(w) ==
  [protected |-> ParseHeader(w.protected),
   header |-> IF "header" \in w.keys THEN w.header ELSE "undefined",
   signature |-> w.signature]

\* Compact: base64url(protectedHeader) . base64url(payload) .
\* base64url(signature), the last segment empty for alg none.
ToCompact(x) ==
  LET d == x.signatures[1]
  IN [NoWire EXCEPT !.segments = << Base64url(JsonHeader(d.protected)),
                                    Base64url(JsonPayload(x.payload)),
                                    SigSegment(d.signature) >>]

\* Flattened: { payload, protected, header?, signature }
ToFlattened(x) ==
  LET d == x.signatures[1]
  IN [NoWire EXCEPT
        !.keys = {"payload", "protected", "signature"}
                   \cup (IF d.header # "undefined" THEN {"header"} ELSE {}),
        !.payload = Base64url(JsonPayload(x.payload)),
        !.protected = Base64url(JsonHeader(d.protected)),
        !.header = d.header,
        !.signature = SigSegment(d.signature)]

\* General: { payload, signatures: [ { protected, header?, signature }, ... ] }
ToGeneralReversed(x) ==
  [NoWire EXCEPT
     !.keys = {"payload", "signatures"},
     !.payload = JsonPayload(x.payload),
     !.signatures = [i \in 1..Len(x.signatures) |->
                       WireDescriptor(x.signatures[Len(x.signatures) + 1 - i])]]

ToGeneral(x) ==
  [NoWire EXCEPT
     !.keys = {"payload", "signatures"},
     !.payload = JsonPayload(x.payload),
     !.signatures = [i \in 1..Len(x.signatures) |->
                       WireDescriptor(x.signatures[i])]]

Serialize(x, form) ==
  CASE form = "compact" -> ToCompact(x)
    [] form = "flattened" -> ToFlattened(x)
    [] OTHER -> ToGeneral(x)

\* The form of a serialized token, from its structure alone.
Detect(raw) ==
  IF Len(raw.segments) = 3 /\ raw.keys = {} THEN "compact"
  ELSE IF raw.segments # << >> THEN "malformed"
  ELSE IF "signatures" \in raw.keys /\ "signature" \notin raw.keys
            /\ "payload" \in raw.keys
    THEN "general"
  ELSE IF "signature" \in raw.keys /\ "signatures" \notin raw.keys
            /\ "payload" \in raw.keys /\ "protected" \in raw.keys
    THEN "flattened"
  ELSE "malformed"

\* The serialization a decoded token records for a form.
SerializationOf(form) == IF form = "general" THEN "document" ELSE form

\* No token.
NoToken ==
  [type |-> "none", serialization |-> "none", payload |-> "undefined",
   signatures |-> << >>]

\* decode(raw) of a well-formed serialized token.
DecodeTypeless(raw) ==
  LET form == Detect(raw)
  IN CASE form = "compact" ->
            [type |-> "none", serialization |-> "compact",
             payload |-> ParsePayload(UnBase64url(raw.segments[2])),
             signatures |-> << [protected |-> ParseHeader(UnBase64url(raw.segments[1])),
                                header |-> "undefined",
                                signature |-> UnSigSegment(raw.segments[3])] >>]
       [] form = "flattened" ->
            [type |-> "none", serialization |-> "flattened",
             payload |-> ParsePayload(UnBase64url(raw.payload)),
             signatures |-> << [protected |-> ParseHeader(UnBase64url(raw.protected)),
                                header |-> IF "header" \in raw.keys
                                             THEN raw.header ELSE "undefined",
                                signature |-> UnSigSegment(raw.signature)] >>]
       [] form = "general" ->
            [type |-> "none", serialization |-> "general",
             payload |-> ParsePayload(raw.payload),
             signatures |-> [i \in 1..Len(raw.signatures) |->
                               UnWireDescriptor(raw.signatures[i])]]
       [] OTHER -> NoToken

Decode(raw) ==
  LET form == Detect(raw)
  IN CASE form = "compact" ->
            [type |-> "JWS", serialization |-> SerializationOf(form),
             payload |-> ParsePayload(UnBase64url(raw.segments[2])),
             signatures |-> << [protected |-> ParseHeader(UnBase64url(raw.segments[1])),
                                header |-> "undefined",
                                signature |-> UnSigSegment(raw.segments[3])] >>]
       [] form = "flattened" ->
            [type |-> "JWS", serialization |-> SerializationOf(form),
             payload |-> ParsePayload(UnBase64url(raw.payload)),
             signatures |-> << [protected |-> ParseHeader(UnBase64url(raw.protected)),
                                header |-> IF "header" \in raw.keys
                                             THEN raw.header ELSE "undefined",
                                signature |-> UnSigSegment(raw.signature)] >>]
       [] form = "general" ->
            [type |-> "JWS", serialization |-> SerializationOf(form),
             payload |-> ParsePayload(raw.payload),
             signatures |-> [i \in 1..Len(raw.signatures) |->
                               UnWireDescriptor(raw.signatures[i])]]
       [] OTHER -> NoToken

\* Token.verify: whether the signature of a descriptor verifies against the
\* payload ("s2" is a signature over something else).
Valid(d) == d.protected.alg = "none" \/ d.signature = "s1"

Outcome(b) == IF b THEN "true" ELSE "false"

\* The result of verifying all signatures, from the outcome of each check and
\* the order in which they completed.
AllVerifiedLastDone(checks, order) == checks[order[Len(order)]] = "true"

AllVerified(checks, order) == \A i \in DOMAIN checks : checks[i] = "true"

NoX == [payload |-> "undefined", signatures |-> << >>]

\* Serialized input that is none of the three wire shapes.
Malformed ==
  { [NoWire EXCEPT !.segments = << <<"wrong">> >>],
    [NoWire EXCEPT !.keys = {"payload"}, !.payload = JsonPayload("p1")],
    [ToFlattened([payload |-> "p1",
                  signatures |-> << [protected |-> [alg |-> "RS256", kid |-> "k1",
                                                    jku |-> "j1"],
                                     header |-> "undefined",
                                     signature |-> "s1"] >>])
       EXCEPT !.keys = @ \cup {"signatures"}] }

NoTok ==
  [pc |-> "idle", x |-> NoX, form |-> "none", raw |-> NoWire, out |-> NoToken,
   mode |-> "none", checks |-> << >>, order |-> << >>, status |-> "pending",
   value |-> "none", verified |-> "undefined", err |-> "none"]

\* ---------------------------------------------------------------- calls
IdleCall ==
  [pc |-> "idle", op |-> "none", jku |-> 1, kid |-> "k1", jwks |-> "null",
   phase |-> "lookup", log |-> <<>>, memHit |-> FALSE, storeOut |-> "none",
   fetchOut |-> "none", found |-> "none", ioErr |-> FALSE, revFresh |-> FALSE,
   arg |-> UNDEF, wasRecent |-> FALSE, evicted |-> {},
   status |-> "pending", err |-> "none", value |-> "null", key |-> NoKey]

OffCall == [IdleCall EXCEPT !.pc = "off"]

\* constructor: empty cache; store and max from the options.
Init ==
  /\ jwkSets = << >>
  /\ recent = << >>
  /\ \E cfg \in BOOLEAN :
       store = [configured |-> cfg, docs |-> [j \in Locators |-> "none"]]
  /\ max \in Capacities
  /\ calls = [s \in Slots |-> IF s = 1 THEN IdleCall ELSE OffCall]
  /\ sig = NoSig
  /\ job = NoJob
  /\ tok = NoTok

Reject(c, e) == [c EXCEPT !.pc = "done", !.status = "rejected", !.err = e]

Resolve(c, v) == [c EXCEPT !.pc = "done", !.status = "resolved", !.value = v]

Set(s, c) == calls' = [calls EXCEPT ![s] = c]

\* A caller invokes getJwks(jku), getJwk(kid, jku) or cacheJwks(jwks, jku).
Start(s) ==
  /\ calls[s].pc = "idle"
  /\ \E op \in Ops, jku \in Locators :
       \/ /\ op = "getJwks"
          /\ Set(s, [IdleCall EXCEPT !.pc = "fromCache", !.op = op, !.jku = jku])
       \/ /\ op = "getJwk"
          /\ \E kid \in Kids :
               Set(s, [IdleCall EXCEPT !.pc = "fromCache", !.op = op,
                                       !.jku = jku, !.kid = kid])
       \/ /\ op = "cacheJwks"
          /\ \E jwks \in SetIds \cup {"null"} :
               Set(s, [IdleCall EXCEPT !.pc = "cacheJwks", !.op = op,
                                       !.jku = jku, !.jwks = jwks])
  /\ UNCHANGED <<jwkSets, recent, store, max, sig, job, tok>>

\* getJwksFromCache
FromCache(s) ==
  LET c == calls[s]
      hit == CacheLookup(jwkSets, c.jku)
  IN /\ c.pc = "fromCache"
     /\ Set(s, [c EXCEPT !.pc = "fromStore", !.jwks = hit,
                         !.memHit = (hit \notin Falsy),
                         !.log = Append(c.log, "mem")])
     /\ UNCHANGED <<jwkSets, recent, store, max, sig, job, tok>>

\* getJwksFromStore: pass through, or issue store.get(jku)
FromStore(s) ==
  LET c == calls[s]
  IN /\ c.pc = "fromStore"
     /\ IF StorePass(c.jwks, store)
          THEN Set(s, [c EXCEPT !.pc = "fromNetwork"])
          ELSE Set(s, [c EXCEPT !.pc = "storeGet", !.log = Append(c.log, "get")])
     /\ UNCHANGED <<jwkSets, recent, store, max, sig, job, tok>>

\* What the callbacks of store.get(jku) make of its outcome.
StoreGetThrows404(c, out, data) ==
  IF out = "data" THEN [c EXCEPT !.pc = "fromNetwork", !.jwks = data,
                                 !.storeOut = "hit"]
  ELSE IF out = "nodata" THEN [c EXCEPT !.pc = "fromNetwork", !.jwks = "null",
                                        !.storeOut = "nodata"]
  ELSE IF out = "404" THEN [Reject(c, "store 404") EXCEPT !.storeOut = "404"]
  ELSE [Reject(c, "store get error") EXCEPT !.storeOut = "error", !.ioErr = TRUE]

StoreGetSwallows(c, out, data) ==
  IF out = "data" THEN [c EXCEPT !.pc = "fromNetwork", !.jwks = data,
                                 !.storeOut = "hit"]
  ELSE IF out = "nodata" THEN [c EXCEPT !.pc = "fromNetwork", !.jwks = "null",
                                        !.storeOut = "nodata"]
  ELSE [c EXCEPT !.pc = "fromNetwork", !.jwks = "null", !.storeOut = out]

StoreGetDone(c, out, data) ==
  IF out = "data" THEN [c EXCEPT !.pc = "fromNetwork", !.jwks = data,
                                 !.storeOut = "hit"]
  ELSE IF out = "nodata" THEN [c EXCEPT !.pc = "fromNetwork", !.jwks = "null",
                                        !.storeOut = "nodata"]
  ELSE IF out = "404" THEN [c EXCEPT !.pc = "fromNetwork", !.jwks = "null",
                                     !.storeOut = "404"]
  ELSE [Reject(c, "store get error") EXCEPT !.storeOut = "error", !.ioErr = TRUE]

\* store.get(jku) settles: the record, no data, a 404, or another error.
StoreGetReply(s) ==
  LET c == calls[s]
      doc == store.docs[c.jku]
  IN /\ c.pc = "storeGet"
     /\ \E out \in {"data", "nodata", "404", "error"} :
          /\ out = "data" => doc # "none"
          /\ out \in {"nodata", "404"} => doc = "none"
          /\ Set(s, StoreGetDone(c, out, doc))
     /\ UNCHANGED <<jwkSets, recent, store, max, sig, job, tok>>

\* getJwksFromNetwork: pass through, or issue JWKSet.importKeys(jku)
FromNetwork(s) ==
  LET c == calls[s]
  IN /\ c.pc = "fromNetwork"
     /\ IF NetworkPass(c.jwks)
          THEN Set(s, [c EXCEPT !.pc = "cacheJwks"])
          ELSE Set(s, [c EXCEPT !.pc = "fetching", !.log = Append(c.log, "fetch")])
     /\ UNCHANGED <<jwkSets, recent, store, max, sig, job, tok>>

\* What the then-callback of importKeys returns when there is no store:
\* the callback has no return statement outside `if (store)`.
NoStoreResult(fetched) == "undefined"

\* The catch handler of the network stage: a failed fetch becomes null,
\* every other error is thrown again.
FetchFailedSwallowsAll(c, out) ==
  [c EXCEPT !.pc = "cacheJwks", !.jwks = "null", !.fetchOut = out]

FetchFailed(c, out) ==
  IF out = "fetchfail"
    THEN [c EXCEPT !.pc = "cacheJwks", !.jwks = "null", !.fetchOut = out]
    ELSE [Reject(c, "network error") EXCEPT !.fetchOut = out]

\* JWKSet.importKeys(jku) settles: a key set, a failed fetch, another error.
FetchReply(s) ==
  LET c == calls[s]
  IN /\ c.pc = "fetching"
     /\ \E out \in SetIds \cup {"fetchfail", "error"} :
          \/ /\ out \in SetIds
             /\ store.configured
             /\ Set(s, [c EXCEPT !.pc = "put", !.jwks = out, !.fetchOut = out,
                                 !.log = Append(c.log, "put")])
          \/ /\ out \in SetIds
             /\ ~store.configured
             /\ Set(s, [c EXCEPT !.pc = "cacheJwks", !.jwks = NoStoreResult(out),
                                 !.fetchOut = out])
          \/ /\ out \notin SetIds
             /\ Set(s, FetchFailed(c, out))
     /\ UNCHANGED <<jwkSets, recent, store, max, sig, job, tok>>

\* A successful write of locator j makes every revision read earlier stale.
Stale(cs, s, j) ==
  [t \in Slots |-> IF t # s /\ cs[t].jku = j THEN [cs[t] EXCEPT !.revFresh = FALSE]
                   ELSE cs[t]]

\* The store after a successful store.put(data), data = { _id: jku, ...jwks }.
PutDocNowhere(st, jku, jwks) == st

PutDoc(st, jku, jwks) == [st EXCEPT !.docs[jku] = jwks]

\* store.put(data) without _rev settles: created, 409 (the record exists),
\* or another error.
PutReply(s) ==
  LET c == calls[s]
  IN /\ c.pc = "put"
     /\ \/ /\ store.docs[c.jku] = "none"
           /\ store' = PutDoc(store, c.jku, c.jwks)
           /\ calls' = Stale([calls EXCEPT ![s] = [c EXCEPT !.pc = "cacheJwks"]],
                             s, c.jku)
        \/ /\ store.docs[c.jku] # "none"
           /\ Set(s, [c EXCEPT !.pc = "reget", !.log = Append(c.log, "reget")])
           /\ UNCHANGED store
        \/ /\ Set(s, [Reject(c, "store put error") EXCEPT !.ioErr = TRUE])
           /\ UNCHANGED store
     /\ UNCHANGED <<jwkSets, recent, max, sig, job, tok>>

\* store.get(jku) of the 409 handler settles: the current _rev, or an error.
RegetReply(s) ==
  LET c == calls[s]
  IN /\ c.pc = "reget"
     /\ \/ /\ store.docs[c.jku] # "none"
           /\ Set(s, [c EXCEPT !.pc = "reput", !.revFresh = TRUE,
                               !.log = Append(c.log, "put")])
        \/ Set(s, [Reject(c, "store reget error") EXCEPT !.ioErr = TRUE])
     /\ UNCHANGED <<jwkSets, recent, store, max, sig, job, tok>>

\* A 409 of the second put: the put of the 409 handler has no catch of its
\* own, the conflict is the outcome of the stage.
ReputConflictRetries(c) ==
  IF Count(c.log, "reget") < 3
    THEN [c EXCEPT !.pc = "reget", !.log = Append(c.log, "reget")]
    ELSE [Reject(c, "conflict") EXCEPT !.ioErr = TRUE]

ReputConflict(c) == [Reject(c, "conflict") EXCEPT !.ioErr = TRUE]

\* store.put(data) with the re-read _rev settles: updated, 409 again (the
\* record changed since the re-read), or another error.
ReputReply(s) ==
  LET c == calls[s]
  IN /\ c.pc = "reput"
     /\ \/ /\ c.revFresh
           /\ store' = PutDoc(store, c.jku, c.jwks)
           /\ calls' = Stale([calls EXCEPT ![s] = [c EXCEPT !.pc = "cacheJwks"]],
                             s, c.jku)
        \/ /\ ~c.revFresh
           /\ Set(s, ReputConflict(c))
           /\ UNCHANGED store
        \/ /\ Set(s, [Reject(c, "store put error") EXCEPT !.ioErr = TRUE])
           /\ UNCHANGED store
     /\ UNCHANGED <<jwkSets, recent, max, sig, job, tok>>

\* The locator the pending cacheJwks call of c is given.
CacheArg(c) ==
  IF c.op = "getJwks" \/ (c.op = "getJwk" /\ c.phase = "lookup")
    THEN GetJwksCacheArg(c.jku)
    ELSE c.jku

\* Where a call continues once cacheJwks has resolved.
AfterCache(c) ==
  IF c.op = "getJwk"
    THEN [c EXCEPT !.pc = IF c.phase = "lookup" THEN "find" ELSE "refind",
                   !.value = c.jwks]
    ELSE Resolve(c, c.jwks)

\* cacheJwks(jwks, jku)
CacheJwks(s) ==
  LET c == calls[s]
      k == CacheArg(c)
      r == CacheJwksResult(recent, jwkSets, max, c.jwks, k)
  IN /\ c.pc = "cacheJwks"
     /\ IF NoJwks(c.jwks)
          THEN /\ Set(s, Reject(c, "JWK Set not found"))
               /\ UNCHANGED <<jwkSets, recent>>
          ELSE /\ recent' = r.recent
               /\ jwkSets' = r.jwkSets
               /\ Set(s, [AfterCache(c) EXCEPT
                            !.arg = k,
                            !.wasRecent = (k \in Elems(recent)),
                            !.evicted = (Elems(recent) \cup {k}) \ Elems(r.recent)])
     /\ UNCHANGED <<store, max, sig, job, tok>>

\* What getJwkFromJwks does when the refreshed set lacks the key too.
StillMissingRetry(c) ==
  IF Count(c.log, "refresh") < 2
    THEN [c EXCEPT !.pc = "fromNetwork", !.jwks = "null",
                   !.log = Append(c.log, "refresh")]
    ELSE Reject(c, "JWK not found in JWK Set")

StillMissing(c) == Reject(c, "JWK not found in JWK Set")

\* getJwkFromJwks: the first search, and the start of the forced refresh.
FindJwk(s) ==
  LET c == calls[s]
      jwk == Find(c.jwks, c.kid)
  IN /\ c.pc = "find"
     /\ IF jwk # NoKey
          THEN Set(s, [Resolve(c, c.jwks) EXCEPT !.key = jwk, !.found = "first"])
          ELSE Set(s, [c EXCEPT !.pc = "fromNetwork", !.phase = "refresh",
                                !.jwks = "null", !.found = "missing",
                                !.fetchOut = "none",
                                !.log = Append(c.log, "refresh")])
     /\ UNCHANGED <<jwkSets, recent, store, max, sig, job, tok>>

\* getJwkFromJwks: the search of the refreshed set.
RefindJwk(s) ==
  LET c == calls[s]
      jwk == Find(c.jwks, c.kid)
  IN /\ c.pc = "refind"
     /\ IF jwk # NoKey
          THEN Set(s, [Resolve(c, c.jwks) EXCEPT !.key = jwk, !.found = "second"])
          ELSE Set(s, StillMissing(c))
     /\ UNCHANGED <<jwkSets, recent, store, max, sig, job, tok>>

\* The promise of the call has settled and the caller has its result.
Return(s) ==
  /\ calls[s].pc = "done"
  /\ Set(s, IdleCall)
  /\ UNCHANGED <<jwkSets, recent, store, max, sig, job, tok>>

\* Another user of the persistent store writes the record of a locator.
StoreWrite ==
  /\ store.configured
  /\ \E j \in Locators, id \in SetIds :
       /\ store.docs[j] # id
       /\ store' = [store EXCEPT !.docs[j] = id]
       /\ calls' = Stale(calls, 0, j)
  /\ UNCHANGED <<jwkSets, recent, max, sig, job, tok>>

Step(s) ==
  \/ Start(s)
  \/ FromCache(s)
  \/ FromStore(s)
  \/ StoreGetReply(s)
  \/ FromNetwork(s)
  \/ FetchReply(s)
  \/ PutReply(s)
  \/ RegetReply(s)
  \/ ReputReply(s)
  \/ CacheJwks(s)
  \/ FindJwk(s)
  \/ RefindJwk(s)
  \/ Return(s)

Next == (\E s \in Slots : Step(s)) \/ StoreWrite

Spec == Init /\ [][Next]_vars

\* ------------------------------------------------------- concurrent lookups
\* The locator two callers look up at once.
SharedJku == 1

\* A cache with a store, and two callers about to call.
ConcInit ==
  /\ jwkSets = << >>
  /\ recent = << >>
  /\ store = [configured |-> TRUE, docs |-> [j \in Locators |-> "none"]]
  /\ max \in Capacities
  /\ calls = [s \in Slots |-> IdleCall]
  /\ sig = NoSig
  /\ job = NoJob
  /\ tok = NoTok

\* A caller invokes getJwks(jku) or getJwk(kid, jku) for the shared locator.
ConcStart(s) ==
  /\ calls[s].pc = "idle"
  /\ \E op \in {"getJwks", "getJwk"} :
       \/ /\ op = "getJwks"
          /\ Set(s, [IdleCall EXCEPT !.pc = "fromCache", !.op = op,
                                     !.jku = SharedJku])
       \/ /\ op = "getJwk"
          /\ \E kid \in Kids :
               Set(s, [IdleCall EXCEPT !.pc = "fromCache", !.op = op,
                                       !.jku = SharedJku, !.kid = kid])
  /\ UNCHANGED <<jwkSets, recent, store, max, sig, job, tok>>

\* The callbacks and replies of the two calls, in any interleaving.
ConcStep(s) ==
  \/ ConcStart(s)
  \/ FromCache(s)
  \/ FromStore(s)
  \/ StoreGetReply(s)
  \/ FromNetwork(s)
  \/ FetchReply(s)
  \/ PutReply(s)
  \/ RegetReply(s)
  \/ ReputReply(s)
  \/ CacheJwks(s)
  \/ FindJwk(s)
  \/ RefindJwk(s)

ConcNext == \E s \in Slots : ConcStep(s)

ConcSpec == ConcInit /\ [][ConcNext]_vars

\* ---------------------------------------------------------------- JOSESignature steps
cacheVars == <<jwkSets, recent, store, max, calls>>

\* new JOSESignature(data): throws, or leaves the frozen instance.
Construct ==
  /\ sig.state # "constructed"
  /\ job.kind = "none"
  /\ \E data \in DataArgs, alg \in Algs, kid \in {"undefined", "k1"},
        jku \in {"undefined", "j1"} :
       LET hdr == IF Get(data, "protectedHeader") = "obj"
                    THEN [alg |-> alg, kid |-> kid, jku |-> jku] ELSE NoHeader
           err == ConstructorError(data, hdr.alg)
       IN /\ Get(data, "protectedHeader") # "obj" => hdr = [alg |-> alg, kid |-> kid, jku |-> jku]
          /\ sig' = IF err # "none"
                      THEN [NoSig EXCEPT !.state = "threw", !.err = err,
                                         !.data = data, !.header = hdr]
                      ELSE [NoSig EXCEPT !.state = "constructed", !.data = data,
                                         !.inst = Constructed(data),
                                         !.header = hdr]
  /\ UNCHANGED <<cacheVars, job, tok>>

\* instance[p] = v in strict mode.
WriteProp(obj, p, v) ==
  IF obj.frozen THEN obj
  ELSE [obj EXCEPT !.own = @ \cup {p}, !.val[p] = v,
                   !.enum = IF p \in obj.own THEN @ ELSE @ \cup {p}]

\* A holder of the instance assigns to one of its properties
\* (joseSignature.x = 1): the frozen object throws a TypeError.
AssignProp ==
  /\ sig.state = "constructed"
  /\ \E p \in SigProps :
       LET after == WriteProp(sig.inst, p, "1")
       IN sig' = [sig EXCEPT !.inst = after,
                             !.opErr = IF after = sig.inst THEN "TypeError"
                                       ELSE "none"]
  /\ UNCHANGED <<cacheVars, job, tok>>

\* delete instance[p] in strict mode.
RemoveProp(obj, p) ==
  IF obj.frozen \/ p \notin obj.own THEN obj
  ELSE [obj EXCEPT !.own = @ \ {p}, !.enum = @ \ {p}, !.val[p] = "undefined"]

\* A holder of the instance deletes one of its own properties: the frozen
\* object throws a TypeError.
DeleteProp ==
  /\ sig.state = "constructed"
  /\ \E p \in sig.inst.own :
       LET after == RemoveProp(sig.inst, p)
       IN sig' = [sig EXCEPT !.inst = after,
                             !.opErr = IF after = sig.inst THEN "TypeError"
                                       ELSE "none"]
  /\ UNCHANGED <<cacheVars, job, tok>>

\* A holder of the instance writes a parameter of its protected header
\* (joseSignature.protectedHeader.alg = v): the header object is not frozen.
SetHeaderParam ==
  /\ sig.state = "constructed"
  /\ \E v \in Algs \ {"undefined", sig.header.alg} :
       sig' = [sig EXCEPT !.header.alg = v, !.touched = TRUE, !.opErr = "none"]
  /\ UNCHANGED <<cacheVars, job, tok>>

\* delete joseSignature.protectedHeader.alg
DeleteHeaderParam ==
  /\ sig.state = "constructed"
  /\ sig.header.alg # "undefined"
  /\ sig' = [sig EXCEPT !.header.alg = "undefined", !.touched = TRUE,
                        !.opErr = "none"]
  /\ UNCHANGED <<cacheVars, job, tok>>

\* The caller lets go of the instance, or of the error of the constructor.
Release ==
  /\ sig.state # "none"
  /\ job.kind = "none"
  /\ sig' = NoSig
  /\ UNCHANGED <<cacheVars, job, tok>>

\* jwk.getProtectedHeader(protectedHeaderParams): the alg of the key, the
\* parameters given, and the kid the key gives when none is given.
ProtectedHeaders(jwk, kid, jku) ==
  { [alg |-> "RS256", kid |-> k, jku |-> jku] :
      k \in IF kid # "undefined" THEN {kid} ELSE {"undefined", KeyKid(jwk)} }

\* JOSESignature.sign(options) up to the jwk.sign(input) it issues.
Sign ==
  /\ job.kind = "none"
  /\ sig.state = "none"
  /\ \E payload \in Payloads \cup {"undefined"}, cache \in {"undefined", "cacheRef"},
        jwk \in Pairs \cup {"undefined"}, uh \in {"undefined", "obj"},
        kid \in Kids \cup {"undefined"}, jku \in {"undefined", "j1"} :
       LET err == SignChecks(payload, cache, jwk)
           j == [NoJob EXCEPT !.kind = "sign", !.payload = payload,
                              !.cache = cache, !.jwk = jwk, !.uh = uh]
       IN IF err # "none"
            THEN /\ kid = "undefined" /\ jku = "undefined"
                 /\ job' = [j EXCEPT !.pc = "done", !.status = "rejected",
                                     !.err = err]
            ELSE \E h \in ProtectedHeaders(jwk, kid, jku) :
                   job' = [j EXCEPT !.pc = "signing", !.header = h, !.key = jwk,
                                    !.input = SignInput(h, payload),
                                    !.log = <<"getProtectedHeader", "sign">>]
  /\ UNCHANGED <<cacheVars, sig, tok>>

\* jwk.sign(input) settles: the then-callback constructs the instance.
SignReply ==
  /\ job.pc = "signing"
  /\ \/ /\ job' = [job EXCEPT !.pc = "done", !.status = "rejected",
                              !.err = "sign error"]
        /\ UNCHANGED sig
     \/ LET data == Literal([protectedHeader |-> "obj",
                             unprotectedHeader |-> job.uh,
                             signature |-> "sigbytes", cache |-> job.cache,
                             foo |-> "absent", x |-> "absent"])
            err == ConstructorError(data, job.header.alg)
        IN IF err # "none"
             THEN /\ job' = [job EXCEPT !.pc = "done", !.status = "rejected",
                                        !.err = err]
                  /\ UNCHANGED sig
             ELSE /\ job' = [job EXCEPT !.pc = "done", !.status = "resolved",
                                        !.value = "instance"]
                  /\ sig' = [NoSig EXCEPT
                               !.state = "constructed", !.data = data,
                               !.inst = Constructed(data),
                               !.header = job.header,
                               !.signed = [pair |-> job.key, input |-> job.input,
                                           payload |-> job.payload]]
  /\ UNCHANGED <<cacheVars, tok>>

\* joseSignature.verify(payload, keyHint)
Verify ==
  /\ job.kind = "none"
  /\ sig.state = "constructed"
  /\ \E payload \in Payloads \cup {"undefined"}, hint \in Hints :
       /\ payload = "undefined" => (MissingAlg(sig.header) \/ Unsecured(sig.header))
       /\ job' = VerifyBody([NoJob EXCEPT !.kind = "verify", !.payload = payload,
                                          !.hint = hint],
                            sig.header, hint)
  /\ UNCHANGED <<cacheVars, sig, tok>>

\* JWK.importKey(keyHint) settles: verify runs again with the imported JWK.
ImportReply ==
  /\ job.pc = "importing"
  /\ \/ job' = VerifyBody(job, sig.header, [kind |-> "jwk", pair |-> job.key])
     \/ job' = [job EXCEPT !.pc = "done", !.status = "rejected",
                           !.err = "import error"]
  /\ UNCHANGED <<cacheVars, sig, tok>>

\* cache.getJwk(kid, jku) settles: verify runs again with the JWK the cache
\* resolved, or the rejection of the cache is the rejection of verify.
GetJwkReply ==
  /\ job.pc = "resolving"
  /\ \/ \E k \in Pairs :
          job' = VerifyBody(job, sig.header, [kind |-> "jwk", pair |-> k])
     \/ \E e \in {"JWK Set not found", "JWK not found in JWK Set"} :
          job' = [job EXCEPT !.pc = "done", !.status = "rejected", !.err = e]
  /\ UNCHANGED <<cacheVars, sig, tok>>

\* keyHint.verify(signingInput, signature) settles with a boolean.
VerifyReply ==
  /\ job.pc = "verifying"
  /\ job' = [job EXCEPT !.pc = "done", !.status = "resolved",
                        !.value = IF KeyVerify(job.key, job.input, sig.signed)
                                    THEN "true" ELSE "false"]
  /\ UNCHANGED <<cacheVars, sig, tok>>

\* The caller of sign or verify has its result.
JobReturn ==
  /\ job.pc = "done"
  /\ job' = NoJob
  /\ UNCHANGED <<cacheVars, sig, tok>>

\* A cache that no lookup is using, and no signature yet.
SigInit ==
  /\ jwkSets = << >>
  /\ recent = << >>
  /\ store = [configured |-> FALSE, docs |-> [j \in Locators |-> "none"]]
  /\ max \in Capacities
  /\ calls = [s \in Slots |-> OffCall]
  /\ sig = NoSig
  /\ job = NoJob
  /\ tok = NoTok

SigNext ==
  \/ Construct
  \/ AssignProp
  \/ DeleteProp
  \/ SetHeaderParam
  \/ DeleteHeaderParam
  \/ Release
  \/ Sign
  \/ SignReply
  \/ Verify
  \/ ImportReply
  \/ GetJwkReply
  \/ VerifyReply
  \/ JobReturn

SigSpec == SigInit /\ [][SigNext]_vars

\* ------------------------------------------------------------ token steps
otherVars == <<cacheVars, sig, job>>

\* encode: serialize a token in one of the three forms.
Encode ==
  /\ tok.pc = "idle"
  /\ \E x \in Tokens, form \in Forms :
       /\ form # "general" => Len(x.signatures) = 1
       /\ tok' = [tok EXCEPT !.pc = "encoded", !.x = x, !.form = form,
                             !.raw = Serialize(x, form)]
  /\ UNCHANGED otherVars

\* A serialized value that no encode produced.
Receive ==
  /\ tok.pc = "idle"
  /\ \E raw \in Malformed : tok' = [tok EXCEPT !.pc = "encoded", !.raw = raw]
  /\ UNCHANGED otherVars

\* decode(raw)
DecodeStep ==
  /\ tok.pc = "encoded"
  /\ IF Detect(tok.raw) = "malformed"
       THEN tok' = [tok EXCEPT !.pc = "done", !.status = "rejected",
                               !.err = "Malformed JWD"]
       ELSE tok' = [tok EXCEPT !.pc = "decoded", !.out = Decode(tok.raw)]
  /\ UNCHANGED otherVars

\* verify(serialized, options): decode, then start one check per signature.
VerifyStart ==
  /\ tok.pc = "encoded"
  /\ \E mode \in {"boolean", "instance"} :
       IF Detect(tok.raw) = "malformed"
         THEN tok' = [tok EXCEPT !.pc = "done", !.status = "rejected",
                                 !.mode = mode, !.err = "Malformed JWD"]
         ELSE LET out == Decode(tok.raw)
              IN tok' = [tok EXCEPT !.pc = "verifying", !.out = out,
                                    !.mode = mode,
                                    !.checks = [i \in 1..Len(out.signatures)
                                                  |-> "pending"]]
  /\ UNCHANGED otherVars

\* The check of one signature completes.
CheckDone ==
  /\ tok.pc = "verifying"
  /\ \E i \in DOMAIN tok.checks :
       /\ tok.checks[i] = "pending"
       /\ tok' = [tok EXCEPT !.checks[i] = Outcome(Valid(tok.out.signatures[i])),
                             !.order = Append(@, i)]
  /\ UNCHANGED otherVars

\* All checks have completed: the promise of verify settles.
VerifyFinish ==
  /\ tok.pc = "verifying"
  /\ \A i \in DOMAIN tok.checks : tok.checks[i] # "pending"
  /\ LET v == Outcome(AllVerified(tok.checks, tok.order))
     IN tok' = [tok EXCEPT !.pc = "done", !.status = "resolved",
                           !.verified = v,
                           !.value = IF tok.mode = "instance" THEN "instance"
                                                              ELSE v]
  /\ UNCHANGED otherVars

\* The caller drops the token.
Discard ==
  /\ tok.pc \in {"decoded", "done"}
  /\ tok' = NoTok
  /\ UNCHANGED otherVars

TokenInit == SigInit

TokenNext ==
  \/ Encode
  \/ Receive
  \/ DecodeStep
  \/ VerifyStart
  \/ CheckDone
  \/ VerifyFinish
  \/ Discard

TokenSpec == TokenInit /\ [][TokenNext]_vars

\* ---------------------------------------------------------------- claims
\* The I/O events of the getJwks pipeline of a call (before any forced
\* refresh of getJwkFromJwks).
LookupLog(c) ==
  IF "refresh" \in Elems(c.log)
    THEN SubSeq(c.log, 1, IndexOf(c.log, "refresh") - 1)
    ELSE c.log

\* The I/O events of the forced refresh of a call.
RefreshLog(c) ==
  IF "refresh" \in Elems(c.log)
    THEN SubSeq(c.log, IndexOf(c.log, "refresh") + 1, Len(c.log))
    ELSE << >>

Lookups == {s \in Slots : calls[s].op \in {"getJwks", "getJwk"}}

\* The cacheJwks step of slot s, taken with a key set.
CacheStep(s) ==
  /\ calls[s].pc = "cacheJwks"
  /\ calls'[s].pc # "cacheJwks"
  /\ calls[s].jwks \notin Falsy

\* C1: getJwks consults memory first, then the store (only if one is
\* configured), then the network, and stops at the first hit: a memory hit
\* issues neither store.get nor a fetch, a store hit issues no fetch.
C1_SourceOrder ==
  \A s \in Lookups :
    LET c == calls[s]
        l == LookupLog(c)
    IN /\ l # << >> => l[1] = "mem"
       /\ Count(l, "mem") <= 1 /\ Count(l, "get") <= 1 /\ Count(l, "fetch") <= 1
       /\ "get" \in Elems(l) => (store.configured /\ l[2] = "get")
       /\ "fetch" \in Elems(l) =>
            IndexOf(l, "fetch") = (IF "get" \in Elems(l) THEN 3 ELSE 2)
       /\ c.memHit => ("get" \notin Elems(l) /\ "fetch" \notin Elems(l))
       /\ c.storeOut = "hit" => "fetch" \notin Elems(l)

C1_Witness ==
  \E s \in Lookups :
    /\ calls[s].pc = "done" /\ calls[s].op = "getJwks"
    /\ calls[s].storeOut = "hit" /\ calls[s].status = "resolved"
    /\ LookupLog(calls[s]) = <<"mem", "get">>

\* C2: when getJwks(jku) resolves with a key set from the store or the
\* network, jwkSets[jku] is that key set and jku is the first element of
\* recent.
C2_WrittenBack ==
  \A s \in Slots :
    LET c == calls[s]
    IN (c.pc = "done" /\ c.op = "getJwks" /\ c.status = "resolved" /\ ~c.memHit)
         => /\ CacheLookup(jwkSets, c.jku) = c.value
            /\ recent # << >>
            /\ recent[1] = c.jku

\* C3: after getJwks(jku) has resolved, a following getJwks(jku) is a memory
\* hit: getJwksFromCache finds the same key set, and the store and network
\* stages pass it through.
C3_NextLookupHitsMemory ==
  \A s \in Slots :
    LET c == calls[s]
        hit == CacheLookup(jwkSets, c.jku)
    IN (c.pc = "done" /\ c.op = "getJwks" /\ c.status = "resolved")
         => /\ hit = c.value
            /\ StorePass(hit, store)
            /\ NetworkPass(hit)

\* C4: on a memory miss and a store miss (or no store), a successful fetch
\* makes getJwksFromNetwork resolve with the fetched key set and getJwks
\* resolve with it, with and without a store.
C4_NetworkResolves ==
  \A s \in Slots :
    LET c == calls[s]
    IN (c.op = "getJwks" /\ c.fetchOut \in SetIds /\ ~c.ioErr)
         => /\ c.pc = "cacheJwks" => c.jwks = c.fetchOut
            /\ c.pc = "done" => (c.status = "resolved" /\ c.value = c.fetchOut)

\* C5: from a cache holding max locators, caching one further locator evicts
\* exactly the last element of recent, from recent and from jwkSets, and
\* keeps every other locator in both.
C5_EvictsLeastRecent ==
  [][\A s \in Slots :
       LET k == CacheArg(calls[s])
           lru == recent[Len(recent)]
       IN (CacheStep(s) /\ Len(recent) = max /\ k \notin Elems(recent))
            => /\ recent' = <<k>> \o SubSeq(recent, 1, max - 1)
               /\ DOMAIN jwkSets' = (DOMAIN jwkSets \cup {k}) \ {lru}
               /\ \A j \in DOMAIN jwkSets \ {lru, k} : jwkSets'[j] = jwkSets[j]
               /\ jwkSets'[k] = calls[s].jwks]_vars

C5_Witness ==
  \E s \in Slots :
    /\ calls[s].pc = "done" /\ calls[s].op = "cacheJwks"
    /\ calls[s].status = "resolved"
    /\ ~calls[s].wasRecent
    /\ Cardinality(calls[s].evicted) = 1
    /\ max = 2

\* Every insertion of a further locator x into the cache as it is keeps k.
SurvivesNextInsertion(rec, sets, mx, k) ==
  \A x \in (Locators \cup {UNDEF}) \ Elems(rec) :
    \A id \in SetIds :
      LET r == CacheJwksResult(rec, sets, mx, id, x)
      IN k \in Elems(r.recent) /\ k \in DOMAIN r.jwkSets

\* C6 as stated: caching a locator that is in recent moves it to the front
\* (recent[0] = jku, jwkSets[jku] = jwks) and the next insertion that exceeds
\* max does not evict it.
C6_Original ==
  [][\A s \in Slots :
       LET k == CacheArg(calls[s])
       IN (CacheStep(s) /\ k \in Elems(recent))
            => /\ recent'[1] = k
               /\ jwkSets'[k] = calls[s].jwks
               /\ SurvivesNextInsertion(recent', jwkSets', max, k)]_vars

\* C6 (amended): caching a locator that is in recent moves it to the front
\* (recent[0] = jku, jwkSets[jku] = jwks) and, when max is at least 2, the
\* next insertion that exceeds max does not evict it.
C6_ReaccessProtects ==
  [][\A s \in Slots :
       LET k == CacheArg(calls[s])
       IN (CacheStep(s) /\ k \in Elems(recent))
            => /\ recent'[1] = k
               /\ jwkSets'[k] = calls[s].jwks
               /\ max >= 2 => SurvivesNextInsertion(recent', jwkSets', max, k)]_vars

C6_Witness ==
  \E s \in Slots :
    /\ calls[s].pc = "done" /\ calls[s].op = "cacheJwks"
    /\ calls[s].status = "resolved"
    /\ calls[s].wasRecent
    /\ max = 2 /\ Len(recent) = 2
    /\ recent[1] = calls[s].jku

\* C7: recent has at most max elements and jwkSets at most max entries.
C7_Bounded ==
  /\ Len(recent) <= max
  /\ Cardinality(DOMAIN jwkSets) <= max

\* C8: a getJwk call whose kid is absent from the resolved set performs
\* exactly one forced refresh (one fetch), a call whose kid is found performs
\* none; a call issues at most two fetches, and it terminates: every
\* callback or reply of the call brings it strictly closer to its end.
C8_Counts ==
  \A s \in Slots :
    LET c == calls[s]
    IN c.op = "getJwk" =>
         /\ Count(c.log, "refresh") <= 1
         /\ Count(c.log, "fetch") <= 2
         /\ c.found \in {"none", "first"} => Count(c.log, "refresh") = 0
         /\ c.found = "first" => c.pc = "done"
         /\ c.found \in {"missing", "second"} =>
              /\ Count(c.log, "refresh") = 1
              /\ Count(RefreshLog(c), "fetch") =
                   (IF c.pc = "fromNetwork" THEN 0 ELSE 1)

\* How far a call is from its end: the callbacks and replies still ahead of
\* it on its longest path.
Rank(c) ==
  LET base == CASE c.pc = "fromCache" -> 10
                [] c.pc = "fromStore" -> 9
                [] c.pc = "storeGet" -> 8
                [] c.pc = "fromNetwork" -> 7
                [] c.pc = "fetching" -> 6
                [] c.pc = "put" -> 5
                [] c.pc = "reget" -> 4
                [] c.pc = "reput" -> 3
                [] c.pc = "cacheJwks" -> 2
                [] c.pc \in {"find", "refind"} -> 1
                [] OTHER -> 0
  IN IF c.pc # "done" /\ c.phase = "lookup" THEN base + 8 ELSE base

C8_OneRefresh ==
  /\ []C8_Counts
  /\ [][\A s \in Slots :
          (calls[s].op = "getJwk" /\ calls[s].pc # "done"
             /\ calls'[s].pc # calls[s].pc)
            => Rank(calls'[s]) < Rank(calls[s])]_vars

C8_Witness ==
  \E s \in Slots :
    /\ calls[s].op = "getJwk" /\ calls[s].pc = "done"
    /\ calls[s].found = "missing"
    /\ Count(calls[s].log, "fetch") = 2
    /\ Count(calls[s].log, "refresh") = 1

\* C9: if the refreshed key set still lacks the kid, getJwk fails with
\* 'JWK not found in JWK Set'; it never resolves with a key of another kid.
C9_KeyNotFound ==
  \A s \in Slots :
    LET c == calls[s]
    IN (c.op = "getJwk" /\ c.pc = "done") =>
         /\ (c.found = "missing" /\ c.fetchOut \in SetIds /\ ~c.ioErr
               /\ Find(c.fetchOut, c.kid) = NoKey)
              => (c.status = "rejected" /\ c.err = "JWK not found in JWK Set")
         /\ c.status = "resolved" => c.key.kid = c.kid

\* C10: a store get that fails with a 404 or returns no data is a miss:
\* getJwksFromStore resolves null and getJwks goes on to the network fetch,
\* no error is surfaced.
C10_StoreMissFallsThrough ==
  \A s \in Lookups :
    LET c == calls[s]
    IN c.storeOut \in {"404", "nodata"} =>
         /\ c.err \notin {"store 404", "store get error"}
         /\ IF c.pc = "fromNetwork" /\ c.phase = "lookup"
              THEN c.jwks = "null" /\ "fetch" \notin Elems(c.log)
              ELSE LookupLog(c)[3] = "fetch"

C10_Witness ==
  \E s \in Lookups :
    /\ calls[s].storeOut = "404"
    /\ calls[s].pc = "fetching"
    /\ LookupLog(calls[s]) = <<"mem", "get", "fetch">>

\* C11: a store get error that is not a 404 propagates: the lookup is
\* rejected with that error right after its store get, no fetch is issued,
\* and the steps of the lookup leave jwkSets and recent as they were.
C11_Rejected ==
  \A s \in Lookups :
    LET c == calls[s]
    IN c.storeOut = "error" =>
         /\ c.pc = "done" /\ c.status = "rejected"
         /\ c.err = "store get error"
         /\ c.log = <<"mem", "get">>

C11_StoreErrorPropagates ==
  /\ []C11_Rejected
  /\ [][\A s \in Slots :
          (calls[s].storeOut = "error" \/ calls'[s].storeOut = "error")
            => (jwkSets' = jwkSets /\ recent' = recent)]_vars

C11_Witness ==
  \E s \in Lookups :
    /\ calls[s].pc = "done" /\ calls[s].op = "getJwks"
    /\ calls[s].storeOut = "error" /\ calls[s].status = "rejected"
    /\ jwkSets # << >>

\* C12: a failed fetch makes getJwksFromNetwork resolve null, and getJwks and
\* getJwk reject with 'JWK Set not found'; an error of the network stage
\* that is not a failed fetch rejects the lookup with that error.
C12_FetchFailureIsNotFound ==
  \A s \in Lookups :
    LET c == calls[s]
    IN /\ c.fetchOut = "fetchfail" =>
            \/ c.pc = "cacheJwks" /\ c.jwks = "null"
            \/ /\ c.pc = "done" /\ c.status = "rejected"
               /\ c.err = "JWK Set not found"
       /\ c.fetchOut = "error" =>
            /\ c.pc = "done" /\ c.status = "rejected"
            /\ c.err = "network error"
       /\ (c.pc = "done" /\ c.ioErr) =>
            /\ c.status = "rejected"
            /\ c.err \in {"store get error", "store put error",
                          "store reget error", "conflict"}

C12_Witness ==
  \E s \in Lookups :
    /\ calls[s].pc = "done" /\ calls[s].op = "getJwk"
    /\ calls[s].phase = "refresh"
    /\ calls[s].fetchOut = "fetchfail"
    /\ calls[s].err = "JWK Set not found"

\* C13: with a store configured, the step that resolves the network stage
\* with a fetched key set leaves that key set in the store under the locator
\* of the lookup: it is persisted before getJwksFromNetwork resolves.
C13_PersistedBeforeResolve ==
  [][\A s \in Slots :
       (calls[s].pc \in {"put", "reput"} /\ calls'[s].pc = "cacheJwks")
         => /\ store.configured
            /\ calls'[s].jwks = calls[s].fetchOut
            /\ store'.docs[calls[s].jku] = calls[s].fetchOut
            /\ \A j \in Locators \ {calls[s].jku} :
                 store'.docs[j] = store.docs[j]]_vars

C13_Witness ==
  \E s \in Lookups :
    /\ calls[s].pc = "cacheJwks"
    /\ calls[s].fetchOut \in SetIds
    /\ LookupLog(calls[s]) = <<"mem", "get", "fetch", "put">>
    /\ store.docs[calls[s].jku] = calls[s].fetchOut

\* The I/O events of the network retrieval that call c made last.
LastRetrieval(c) == IF c.phase = "refresh" THEN RefreshLog(c) ELSE LookupLog(c)

\* C14: a 409 of the put is retried once, by a re-read and a second put: a
\* network retrieval issues at most two puts and one re-read; when the
\* second put succeeds getJwks resolves with the fetched key set, and a
\* conflict of the second put rejects the lookup.
C14_OneRetry ==
  \A s \in Lookups :
    LET c == calls[s]
        ls == {LookupLog(c), RefreshLog(c)}
    IN /\ \A l \in ls :
            /\ Count(l, "put") <= 2
            /\ Count(l, "reget") <= 1
            /\ Count(l, "put") <= Count(l, "reget") + 1
            /\ "reget" \in Elems(l) => IndexOf(l, "reget") = IndexOf(l, "put") + 1
       /\ (c.op = "getJwks" /\ c.pc = "done" /\ "reget" \in Elems(c.log)
             /\ ~c.ioErr)
            => (c.status = "resolved" /\ c.value = c.fetchOut)
       /\ c.err = "conflict" =>
            /\ c.pc = "done" /\ c.status = "rejected"
            /\ Count(LastRetrieval(c), "put") = 2
            /\ Count(LastRetrieval(c), "reget") = 1

C14_Witness ==
  \E s \in Lookups :
    /\ calls[s].pc = "done" /\ calls[s].op = "getJwks"
    /\ calls[s].status = "resolved"
    /\ calls[s].log = <<"mem", "get", "fetch", "put", "reget", "put">>
    /\ store.docs[calls[s].jku] = calls[s].value

\* The alg of the protected header the constructor was given, while no
\* holder has written the header since.
SigAlg == sig.header.alg

\* The constructor call that sig records got a protected header.
HasHeader == Truthy(Get(sig.data, "protectedHeader"))

\* C15: the constructor enforces "signature present iff alg is not 'none'":
\* with alg other than 'none' and no signature it throws 'JOSESignature must
\* define signature', with alg 'none' and a signature it throws 'Unsecured
\* JWS must not include signature', and a constructed instance has a
\* signature exactly when the alg of its protected header is not 'none'.
C15_SignatureIffSecured ==
  (sig.state # "none" /\ ~sig.touched) =>
    /\ (HasHeader /\ ~Truthy(Get(sig.data, "signature")) /\ SigAlg # "none")
         => (sig.state = "threw"
               /\ sig.err = "JOSESignature must define signature")
    /\ (HasHeader /\ Truthy(Get(sig.data, "signature")) /\ SigAlg = "none")
         => (sig.state = "threw"
               /\ sig.err = "Unsecured JWS must not include signature")
    /\ sig.state = "constructed"
         => (Truthy(Get(sig.inst, "signature")) <=> SigAlg # "none")

C15_Witness ==
  /\ sig.state = "constructed" /\ ~sig.touched
  /\ SigAlg = "RS256"
  /\ Get(sig.inst, "signature") = "fake"

\* C16: a constructor call without a protected header throws 'JOSESignature
\* must define protected header', whatever else it is given; every instance
\* has a protected header.
C16_HeaderRequired ==
  /\ (sig.state # "none" /\ ~HasHeader)
       => (sig.state = "threw"
             /\ sig.err = "JOSESignature must define protected header")
  /\ sig.state = "constructed" => Get(sig.inst, "protectedHeader") = "obj"

C16_Witness ==
  /\ sig.state = "threw"
  /\ sig.err = "JOSESignature must define protected header"
  /\ sig.data.own = {"unprotectedHeader", "signature", "cache", "foo"}
  /\ Get(sig.data, "signature") = "fake"

\* C17: with alg other than 'none' the constructor does not accept a call
\* without a cache: given a signature it throws 'JOSESignature requires
\* cache' (without a signature the earlier check of the signature throws);
\* with alg 'none' it constructs without a cache; every constructed instance
\* whose alg is not 'none' holds a cache.
C17_CacheRequired ==
  (sig.state # "none" /\ ~sig.touched) =>
    /\ (HasHeader /\ SigAlg # "none" /\ ~Truthy(Get(sig.data, "cache")))
         => /\ sig.state = "threw"
            /\ Truthy(Get(sig.data, "signature"))
                 => sig.err = "JOSESignature requires cache"
            /\ ~Truthy(Get(sig.data, "signature"))
                 => sig.err = "JOSESignature must define signature"
    /\ (HasHeader /\ SigAlg = "none" /\ ~Truthy(Get(sig.data, "signature")))
         => sig.state = "constructed"
    /\ (sig.state = "constructed" /\ SigAlg # "none")
         => Get(sig.inst, "cache") = "cacheRef"

C17_Witness ==
  /\ sig.state = "threw"
  /\ sig.err = "JOSESignature requires cache"
  /\ SigAlg = "RS256"
  /\ Get(sig.data, "signature") = "fake"

\* C18: once a signature is constructed, no operation adds, removes or
\* changes a property of the instance, and none changes or deletes a
\* parameter of its protected header.
C18_Immutable ==
  [][(sig.state = "constructed" /\ sig'.state = "constructed")
       => (sig'.inst = sig.inst /\ sig'.header = sig.header)]_vars

\* C19: the properties the constructor does not know are on the instance
\* with the values given; the cache is on the instance with the value
\* given, and is not enumerable, so it is no part of the serialized form.
C19_UnknownKeptCacheHidden ==
  sig.state = "constructed" =>
    /\ \A p \in sig.data.own \ {"protectedHeader", "unprotectedHeader",
                                "signature", "cache"} :
         /\ p \in sig.inst.own /\ p \in sig.inst.enum
         /\ sig.inst.val[p] = sig.data.val[p]
    /\ "cache" \in sig.inst.own
    /\ sig.inst.val["cache"] = Get(sig.data, "cache")
    /\ "cache" \notin sig.inst.enum
    /\ "cache" \notin Serialized(sig.inst)

C19_Witness ==
  /\ sig.state = "constructed"
  /\ Get(sig.inst, "foo") = "bar"
  /\ Get(sig.inst, "cache") = "cacheRef"
  /\ Serialized(sig.inst) =
       {"foo", "unprotectedHeader", "protectedHeader", "signature"}

\* C20: given unprotectedHeader = undefined, with any alg, the constructed
\* instance has no unprotectedHeader property at all.
C20_NoUndefinedHeader ==
  (sig.state = "constructed"
     /\ "unprotectedHeader" \in sig.data.own
     /\ sig.data.val["unprotectedHeader"] = "undefined")
    => /\ "unprotectedHeader" \notin sig.inst.own
       /\ "unprotectedHeader" \notin sig.inst.enum

C20_Witness ==
  /\ sig.state = "constructed" /\ ~sig.touched
  /\ SigAlg = "none"
  /\ "unprotectedHeader" \in sig.data.own
  /\ sig.data.val["unprotectedHeader"] = "undefined"
  /\ "unprotectedHeader" \notin sig.inst.own

Called(name) == name \in Elems(job.log)

\* C21: sign checks payload, then cache, then key, and rejects with the
\* message of the first that is missing; a rejected call has invoked neither
\* jwk.getProtectedHeader nor jwk.sign.
C21_SignPreconditions ==
  job.kind = "sign" =>
    /\ ~Truthy(job.payload)
         => (job.pc = "done" /\ job.status = "rejected"
               /\ job.err = "Missing payload for JOSE Signature")
    /\ (Truthy(job.payload) /\ ~Truthy(job.cache))
         => (job.pc = "done" /\ job.status = "rejected"
               /\ job.err = "Missing JWKSetCache for JOSE Signature")
    /\ (Truthy(job.payload) /\ Truthy(job.cache) /\ ~Truthy(job.jwk))
         => (job.pc = "done" /\ job.status = "rejected"
               /\ job.err = "JOSE Signature requires JWK")
    /\ (~Truthy(job.payload) \/ ~Truthy(job.cache) \/ ~Truthy(job.jwk))
         => job.log = << >>

C21_Witness ==
  /\ job.kind = "sign" /\ job.status = "rejected"
  /\ job.err = "Missing payload for JOSE Signature"
  /\ job.cache = "undefined" /\ job.jwk = "undefined"

\* C22: verify on a protected header without alg rejects with 'Missing "alg"
\* in protected header' for every payload and key hint, and the run of
\* verify that finds alg missing calls no key and not the cache.
C22_Rejects ==
  (job.kind = "verify" /\ ~Truthy(job.header.alg))
    => (job.pc = "done" /\ job.status = "rejected"
          /\ job.err = "Missing \"alg\" in protected header")

C22_MissingAlg ==
  /\ []C22_Rejects
  /\ [][(job'.kind = "verify" /\ ~Truthy(job'.header.alg) /\ job' # job)
          => job'.log = job.log]_vars

C22_Witness ==
  /\ job.kind = "verify" /\ job.status = "rejected"
  /\ job.err = "Missing \"alg\" in protected header"
  /\ job.hint = [kind |-> "jwk", pair |-> "K1"]
  /\ job.payload = "p1"
  /\ job.log = << >>

\* C23: verify on a protected header with alg 'none' resolves true for every
\* payload and key hint, and the run of verify that finds alg 'none' calls
\* no key, no import and not the cache.
C23_Resolves ==
  (job.kind = "verify" /\ job.header.alg = "none")
    => (job.pc = "done" /\ job.status = "resolved" /\ job.value = "true")

C23_UnsecuredVerifies ==
  /\ []C23_Resolves
  /\ [][(job'.kind = "verify" /\ job'.header.alg = "none" /\ job' # job)
          => job'.log = job.log]_vars

C23_Witness ==
  /\ job.kind = "verify" /\ job.status = "resolved" /\ job.value = "true"
  /\ job.header.alg = "none"
  /\ job.hint = [kind |-> "raw", pair |-> "K2"]
  /\ job.payload = "p2"
  /\ job.log = << >>

C25_UnresolvableKeyFails ==
  (job.kind = "verify" /\ job.pc = "done") =>
    /\ \/ job.status = "resolved" /\ job.value \in {"true", "false"}
       \/ job.status = "rejected" /\ job.err # "none"
    /\ (job.hint = NoHint /\ Truthy(job.header.alg) /\ job.header.alg # "none"
          /\ ~(Truthy(job.header.kid) /\ Truthy(job.header.jku)))
         => job.status = "rejected"

\* C26: with a key hint verify never calls the cache, kid and jku or not: a
\* JWK hint is verified against directly, raw key material after one import;
\* without a hint and with kid and jku, cache.getJwk is called once and the
\* verification runs once, against the key the cache resolved.
C26_KeyPrecedence ==
  job.kind = "verify" =>
    /\ Count(job.log, "getJwk") <= 1
    /\ Count(job.log, "import") <= 1
    /\ Count(job.log, "keyVerify") <= 1
    /\ Len(job.log) <= 2
    /\ Called("keyVerify") => job.log[Len(job.log)] = "keyVerify"
    /\ job.hint.kind = "jwk"
         => /\ ~Called("getJwk") /\ ~Called("import")
            /\ Called("keyVerify") => job.key = job.hint.pair
    /\ job.hint.kind = "raw"
         => /\ ~Called("getJwk")
            /\ Called("keyVerify") => (job.log[1] = "import" /\ job.key = job.hint.pair)
    /\ Called("getJwk")
         => /\ job.hint = NoHint
            /\ Truthy(job.header.kid) /\ Truthy(job.header.jku)
            /\ job.log[1] = "getJwk"
    /\ (job.hint = NoHint /\ ~sig.touched /\ Truthy(sig.header.alg)
          /\ sig.header.alg # "none"
          /\ Truthy(sig.header.kid) /\ Truthy(sig.header.jku))
         => Called("getJwk")

C26_Witness ==
  /\ job.kind = "verify" /\ job.pc = "done"
  /\ job.hint = NoHint
  /\ job.log = <<"getJwk", "keyVerify">>
  /\ job.value = "true"


\* C27: JWD.decode of a General-form document with one signature descriptor
\* yields a token of type 'JWS' and serialization 'document' with the
\* document's payload and with exactly that descriptor as its signatures:
\* its protected header, its unprotected header if any and its signature are
\* those of the document.
C27_DecodeGeneral ==
  (tok.pc = "decoded" /\ Detect(tok.raw) = "general"
     /\ Len(tok.raw.signatures) = 1) =>
    /\ tok.out.type = "JWS"
    /\ tok.out.serialization = "document"
    /\ JsonPayload(tok.out.payload) = tok.raw.payload
    /\ Len(tok.out.signatures) = 1
    /\ JsonHeader(tok.out.signatures[1].protected)
         = tok.raw.signatures[1].protected
    /\ tok.out.signatures[1].signature = tok.raw.signatures[1].signature
    /\ IF "header" \in tok.raw.signatures[1].keys
         THEN tok.out.signatures[1].header = tok.raw.signatures[1].header
         ELSE tok.out.signatures[1].header = "undefined"

C27_Witness ==
  /\ tok.pc = "decoded"
  /\ Detect(tok.raw) = "general"
  /\ Len(tok.raw.signatures) = 1
  /\ tok.raw.signatures[1].protected
       = <<"alg", "RS256", "kid", "k1", "jku", "j1">>
  /\ tok.out.serialization = "document"
  /\ tok.out.signatures[1].signature = "s1"

C29_VerifyIsConjunction ==
  (tok.pc = "done" /\ tok.status = "resolved") =>
    LET all == Outcome(\A i \in 1..Len(tok.out.signatures) :
                          Valid(tok.out.signatures[i]))
    IN /\ Elems(tok.order) = 1..Len(tok.out.signatures)
       /\ tok.verified = all
       /\ tok.mode = "boolean" => tok.value = all
       /\ tok.mode = "instance" => tok.value = "instance"

C29_Witness ==
  /\ tok.pc = "done"
  /\ tok.status = "resolved"
  /\ tok.mode = "boolean"
  /\ tok.order = <<2, 1>>
  /\ tok.checks[1] = "true"
  /\ tok.checks[2] = "false"
  /\ tok.value = "false"

\* C30: recent contains no locator twice, and the locators in recent are
\* exactly the keys of jwkSets.
C30_ListMapConsistent ==
  /\ \A i, j \in 1..Len(recent) : recent[i] = recent[j] => i = j
  /\ Elems(recent) = DOMAIN jwkSets

\* rec without locator k, the other locators in their order.
Others(rec, k) == SelectSeq(rec, LAMBDA x : x # k)

\* C31: caching a locator that is already in recent changes only the
\* position of that locator: it moves to the front, every other locator
\* stays in recent in the same relative order, and every other entry of
\* jwkSets stays as it was.
C31_ReaccessKeepsOthers ==
  [][\A s \in Slots :
       LET k == CacheArg(calls[s])
       IN (CacheStep(s) /\ k \in Elems(recent))
            => /\ recent' = <<k>> \o Others(recent, k)
               /\ DOMAIN jwkSets' = DOMAIN jwkSets
               /\ \A j \in DOMAIN jwkSets \ {k} : jwkSets'[j] = jwkSets[j]]_vars

Unusable(id, kid) ==
  /\ id \in SetIds
  /\ \E i \in 1..Len(Keys(id)) : Keys(id)[i].kid = kid
  /\ Find(id, kid) = NoKey

\* What getJwk does with a set whose member of the requested kid lacks the
\* verify operation: the first search starts the forced refresh, and when
\* the fetched set is no better the call fails with the key-not-found error.
C33_UnusableIsNotFound ==
  \A s \in Slots :
    LET c == calls[s]
    IN c.op = "getJwk" =>
         /\ (c.pc = "done" /\ c.status = "resolved")
              => (c.key.kid = c.kid /\ "verify" \in c.key.key_ops)
         /\ (c.pc = "done" /\ c.found = "missing" /\ ~c.ioErr
               /\ Unusable(c.fetchOut, c.kid))
              => (c.status = "rejected" /\ c.err = "JWK not found in JWK Set")

\* C33: getJwk resolves only with a key whose kid is the requested kid and
\* whose key_ops include 'verify'; a member with the requested kid but
\* without the verify operation is treated as not found: the search starts
\* the forced refresh, and the call fails with 'JWK not found in JWK Set'
\* when the fetched set is no better.
C33_OnlyVerifyKeys ==
  /\ []C33_UnusableIsNotFound
  /\ [][\A s \in Slots :
          (calls[s].pc = "find" /\ calls'[s].pc # "find"
             /\ Unusable(calls[s].jwks, calls[s].kid))
            => /\ calls'[s].found = "missing"
               /\ calls'[s].phase = "refresh"
               /\ calls'[s].pc = "fromNetwork"]_vars

\* C34: when the fetch of the forced refresh brings a set that has the
\* requested kid, getJwk resolves with that key, jwkSets[jku] is the
\* refreshed set and jku is the first element of recent, and a following
\* getJwk for the same kid and jku is answered from memory: the store and
\* the network stages pass the cached set through and the search finds the
\* key without a refresh.
C34_RotationRecovers ==
  \A s \in Slots :
    LET c == calls[s]
        hit == CacheLookup(jwkSets, c.jku)
    IN (c.op = "getJwk" /\ c.pc = "done" /\ c.found \in {"missing", "second"}
          /\ c.fetchOut \in SetIds /\ ~c.ioErr
          /\ Find(c.fetchOut, c.kid) # NoKey)
         => /\ c.status = "resolved"
            /\ c.key = Find(c.fetchOut, c.kid)
            /\ hit = c.fetchOut
            /\ recent # << >> /\ recent[1] = c.jku
            /\ StorePass(hit, store) /\ NetworkPass(hit)
            /\ Find(hit, c.kid) # NoKey

\* Call c has ended after a network retrieval whose fetch succeeded, and no
\* collaborator failed on its own account (a 409 of a put is not such a
\* failure: it is the answer to a write of somebody else).
FetchedAndEnded(c) ==
  /\ c.pc = "done"
  /\ c.fetchOut \in SetIds
  /\ c.err \notin {"store get error", "store put error", "store reget error",
                   "network error"}

\* C35: two lookups of the same locator that have both fetched from the
\* network, with a store configured: each has issued its own fetch and its
\* own put, none has failed because of the store write of the other, a
\* getJwks has resolved with the set it fetched and a getJwk with the key of
\* that set (or failed because the set lacks the key), and the locator's
\* entry in jwkSets and its record in the store are the set one of them
\* fetched.
C35_BothServed ==
  (\A s \in Slots : FetchedAndEnded(calls[s]) /\ calls[s].jku = SharedJku) =>
    /\ \A s \in Slots :
         LET c == calls[s]
         IN /\ Count(LastRetrieval(c), "fetch") = 1
            /\ Count(LastRetrieval(c), "put") >= 1
            /\ c.err # "conflict"
            /\ c.op = "getJwks" => (c.status = "resolved" /\ c.value = c.fetchOut)
            /\ c.op = "getJwk" =>
                 IF Find(c.fetchOut, c.kid) # NoKey
                   THEN c.status = "resolved" /\ c.key = Find(c.fetchOut, c.kid)
                   ELSE c.err = "JWK not found in JWK Set"
    /\ store.docs[SharedJku] \in {calls[s].fetchOut : s \in Slots}
    /\ CacheLookup(jwkSets, SharedJku) \in {calls[s].fetchOut : s \in Slots}

====
